---- MODULE Spec2Model ----
(***************************************************************************)
(* Hotel management system: the HotelManager controller of src/hotel.py    *)
(* with the Room, Guest, Booking and Bill records and the JSON store of    *)
(* src/database.py.                                                        *)
(*                                                                         *)
(* Conventions.  A Python str that the code parses is a sequence of        *)
(* one-character strings; identifiers returned by uuid4 and room numbers   *)
(* are opaque strings.  A datetime.date is a record [year, month, day];    *)
(* None in a date field is NoDate.  Prices and amounts are whole numbers.  *)
(***************************************************************************)
EXTENDS Integers, Sequences, FiniteSets, TLC

\* rooms, guests, bookings, bills: the four lists of the HotelManager;
\* disk: the four JSON files; today: the date datetime.now() shows;
\* faults: whether the data directory refuses writes; last: the outcome of
\* the last call
VARIABLES rooms, guests, bookings, bills, disk, today, faults, last

vars == <<rooms, guests, bookings, bills, disk, today, faults, last>>

mem == <<rooms, guests, bookings, bills>>

----------------------------------------------------------------------------
(* Bounds of the model.                                                    *)

MaxBookings == 2

MaxGuests == 1

\* the days the clock moves on after the first
MaxTicks == 1

----------------------------------------------------------------------------
(* Python values.                                                          *)

\* None passed where the code expects an optional str
NoneStr == <<"None">>

\* None in a field that otherwise holds a datetime.date
NoDate == [year |-> 0, month |-> 0, day |-> 0]

Digits == {"0", "1", "2", "3", "4", "5", "6", "7", "8", "9"}

DigitVal(c) ==
  CASE c = "0" -> 0 [] c = "1" -> 1 [] c = "2" -> 2 [] c = "3" -> 3
    [] c = "4" -> 4 [] c = "5" -> 5 [] c = "6" -> 6 [] c = "7" -> 7
    [] c = "8" -> 8 [] c = "9" -> 9

DigitChar(n) ==
  CASE n = 0 -> "0" [] n = 1 -> "1" [] n = 2 -> "2" [] n = 3 -> "3"
    [] n = 4 -> "4" [] n = 5 -> "5" [] n = 6 -> "6" [] n = 7 -> "7"
    [] n = 8 -> "8" [] n = 9 -> "9"

\* str.strip() leaves the empty string: every character is whitespace
IsBlank(s) == \A i \in 1..Len(s) : s[i] = " "

\* `s` alone, without the strip: a string of blanks counts as given
SuppliedUnstripped(s) == s # NoneStr /\ s # <<>>

\* the truth value of `s and s.strip()` for an optional str argument
Supplied(s) == s # NoneStr /\ s # <<>> /\ ~IsBlank(s)

----------------------------------------------------------------------------
(* datetime.date: calendar, ordering, difference, parsing, formatting.     *)

IsLeap(y) == (y % 4 = 0) /\ ((y % 100 # 0) \/ (y % 400 = 0))

DaysInMonth(y, m) ==
  IF m = 2 THEN (IF IsLeap(y) THEN 29 ELSE 28)
  ELSE IF m \in {4, 6, 9, 11} THEN 30 ELSE 31

ValidDate(y, m, d) ==
  /\ y >= 1 /\ y <= 9999
  /\ m >= 1 /\ m <= 12
  /\ d >= 1 /\ d <= DaysInMonth(y, m)

RECURSIVE DaysBeforeMonth(_, _)
DaysBeforeMonth(y, m) ==
  IF m <= 1 THEN 0 ELSE DaysBeforeMonth(y, m - 1) + DaysInMonth(y, m - 1)

DaysBeforeYear(y) ==
  (y - 1) * 365 + ((y - 1) \div 4) - ((y - 1) \div 100) + ((y - 1) \div 400)

\* date.toordinal()
ToOrdinal(dt) == DaysBeforeYear(dt.year) + DaysBeforeMonth(dt.year, dt.month) + dt.day

\* (a - b).days
DaysBetween(a, b) == ToOrdinal(a) - ToOrdinal(b)

\* a < b on dates: (year, month, day) compared in order
DateLt(a, b) ==
  \/ a.year < b.year
  \/ a.year = b.year /\ a.month < b.month
  \/ a.year = b.year /\ a.month = b.month /\ a.day < b.day

DateLe(a, b) == DateLt(a, b) \/ a = b

\* the number of characters the %m directive takes at position p, 0 for no match:
\* 1[0-2] | 0[1-9] | [1-9], the alternative kept being the one a "-" follows
MonthLen(s, p) ==
  LET two == /\ p + 2 <= Len(s)
             /\ \/ s[p] = "1" /\ s[p + 1] \in {"0", "1", "2"}
                \/ s[p] = "0" /\ s[p + 1] \in (Digits \ {"0"})
             /\ s[p + 2] = "-"
      one == /\ p + 1 <= Len(s)
             /\ s[p] \in (Digits \ {"0"})
             /\ s[p + 1] = "-"
  IN IF two THEN 2 ELSE IF one THEN 1 ELSE 0

\* the number of characters the %d directive takes at position p, 0 for no match:
\* 3[01] | [12]\d | 0[1-9] | [1-9] | " "[1-9], first alternative that matches
DayLen(s, p) ==
  LET has2 == p + 1 <= Len(s)
      has1 == p <= Len(s)
  IN IF has2 /\ s[p] = "3" /\ s[p + 1] \in {"0", "1"} THEN 2
     ELSE IF has2 /\ s[p] \in {"1", "2"} /\ s[p + 1] \in Digits THEN 2
     ELSE IF has2 /\ s[p] = "0" /\ s[p + 1] \in (Digits \ {"0"}) THEN 2
     ELSE IF has1 /\ s[p] \in (Digits \ {"0"}) THEN 1
     ELSE IF has2 /\ s[p] = " " /\ s[p + 1] \in (Digits \ {"0"}) THEN 2
     ELSE 0

\* the number a run of digits (and at most one leading blank) denotes
RECURSIVE NumVal(_)
NumVal(s) ==
  IF s = <<>> THEN 0
  ELSE IF s[Len(s)] \in Digits
       THEN 10 * NumVal(SubSeq(s, 1, Len(s) - 1)) + DigitVal(s[Len(s)])
       ELSE NumVal(SubSeq(s, 1, Len(s) - 1))

\* strptime without the calendar: any day the %d directive matches is taken
StrptimeAnyDay(s) ==
  LET bad == [ok |-> FALSE, date |-> NoDate]
  IN IF s = NoneStr \/ Len(s) < 6 THEN bad
     ELSE IF ~(\A i \in 1..4 : s[i] \in Digits) \/ s[5] # "-" THEN bad
     ELSE LET ml == MonthLen(s, 6)
              dp == 6 + ml + 1
          IN IF ml = 0 \/ DayLen(s, dp) = 0 \/ dp + DayLen(s, dp) - 1 # Len(s)
             THEN bad
             ELSE [ok |-> TRUE,
                   date |-> [year |-> NumVal(SubSeq(s, 1, 4)),
                             month |-> NumVal(SubSeq(s, 6, 5 + ml)),
                             day |-> NumVal(SubSeq(s, dp, Len(s)))]]

\* datetime.datetime.strptime(s, "%Y-%m-%d").date(); ok = FALSE is ValueError
Strptime(s) ==
  LET bad == [ok |-> FALSE, date |-> NoDate]
  IN IF s = NoneStr \/ Len(s) < 6 THEN bad
     ELSE IF ~(\A i \in 1..4 : s[i] \in Digits) \/ s[5] # "-" THEN bad
     ELSE LET ml == MonthLen(s, 6)
          IN IF ml = 0 THEN bad
             ELSE LET dp == 6 + ml + 1
                      dl == DayLen(s, dp)
                  IN IF dl = 0 THEN bad
                     \* "unconverted data remains"
                     ELSE IF dp + dl - 1 # Len(s) THEN bad
                     ELSE LET y == NumVal(SubSeq(s, 1, 4))
                              m == NumVal(SubSeq(s, 6, 5 + ml))
                              d == NumVal(SubSeq(s, dp, dp + dl - 1))
                          IN IF ValidDate(y, m, d)
                             THEN [ok |-> TRUE,
                                   date |-> [year |-> y, month |-> m, day |-> d]]
                             ELSE bad

\* the decimal digits of n, zero-padded to w characters
RECURSIVE Pad(_, _)
Pad(n, w) ==
  IF w = 0 THEN <<>> ELSE Append(Pad(n \div 10, w - 1), DigitChar(n % 10))

\* date.isoformat(): YYYY-MM-DD
IsoFormat(dt) == Pad(dt.year, 4) \o <<"-">> \o Pad(dt.month, 2) \o <<"-">> \o Pad(dt.day, 2)

----------------------------------------------------------------------------
(* Inputs of the operations.                                               *)

\* str(uuid4())[:8]: eight hexadecimal characters, nothing checks them against
\* the identifiers already handed out
GuestIds == {"g1"}

\* guest ids typed at the menu: the one handed out and one never handed out
GuestIdArgs == {"g1", "g7"}

BookingIds == {"b1", "b2"}

BillIds == {"i1", "i2"}

RoomNumbers == {"101", "102"}

\* add_room(room_number, room_type, price)
RoomArgs == {<<"101", "Single", 100>>, <<"102", "Double", 150>>}

\* add_guest(name, phone, email, address)
GuestArgs == {<<"Ann", "555-0101", "ann@example.org", "1 Main St">>}

S_0531 == <<"2", "0", "2", "4", "-", "0", "5", "-", "3", "1">>

S_0602 == <<"2", "0", "2", "4", "-", "0", "6", "-", "0", "2">>

\* June 1st without the padding, which strptime accepts
S_61 == <<"2", "0", "2", "4", "-", "6", "-", "1">>

\* matches the format, is no calendar date
S_0631 == <<"2", "0", "2", "4", "-", "0", "6", "-", "3", "1">>

S_empty == <<>>

S_blank == <<" ", " ">>

\* May 31st, June 1st (unpadded) and June 2nd
WellFormed == {S_0531, S_61, S_0602}

Malformed == {S_0631}

\* date strings given to create_booking
CreateDateArgs == WellFormed \cup Malformed \cup {S_empty}

\* date strings given to update_booking
UpdateDateArgs == WellFormed \cup Malformed \cup {S_empty, S_blank}

\* every date string the operator types
DateArgs == CreateDateArgs \cup UpdateDateArgs

\* strptime of each of them, evaluated once
Parsed == [s \in DateArgs |-> Strptime(s)]

\* datetime.datetime.now().date()
Today == [year |-> 2024, month |-> 6, day |-> 1]

\* the day after dt
NextDay(dt) ==
  IF dt.day < DaysInMonth(dt.year, dt.month) THEN [dt EXCEPT !.day = dt.day + 1]
  ELSE IF dt.month < 12 THEN [year |-> dt.year, month |-> dt.month + 1, day |-> 1]
  ELSE [year |-> dt.year + 1, month |-> 1, day |-> 1]

\* the first day and the n days after it
RECURSIVE DaysFrom(_, _)
DaysFrom(dt, n) == IF n = 0 THEN {dt} ELSE {dt} \cup DaysFrom(NextDay(dt), n - 1)

\* the days datetime.now() can show
ClockDays == DaysFrom(Today, MaxTicks)

\* the dates a record can hold
StoredDates == {Parsed[s].date : s \in DateArgs} \cup ClockDays

\* isoformat of each of them, evaluated once
Iso == [dt \in StoredDates |-> IsoFormat(dt)]

\* amounts offered to process_payment
PayArgs == {100, 300}

S_120 == <<"1", "2", "0">>

S_x == <<"x">>

\* prices typed for update_room: none, a number, not a number
PriceArgs == {S_empty, S_120, S_x}

----------------------------------------------------------------------------
(* Records and their dictionaries.                                         *)

\* Room.__init__
Room(number, room_type, price, is_occupied) ==
  [number |-> number, type |-> room_type, price |-> price, is_occupied |-> is_occupied]

\* Guest.__init__
Guest(guest_id, name, phone, email, address) ==
  [guest_id |-> guest_id, name |-> name, phone |-> phone, email |-> email,
   address |-> address]

\* Booking.__init__
Booking(booking_id, guest_id, room_number, check_in, check_out, is_active) ==
  [booking_id |-> booking_id, guest_id |-> guest_id, room_number |-> room_number,
   check_in |-> check_in, check_out |-> check_out, is_active |-> is_active]

\* Bill.__init__: payment_date starts as None whatever the status
Bill(bill_id, booking_id, amount, status) ==
  [bill_id |-> bill_id, booking_id |-> booking_id, amount |-> amount,
   status |-> status, payment_date |-> NoDate]

\* JSON null
JsonNull == <<"null">>

RoomToDict(r) == r

GuestToDict(g) == g

BookingToDict(b) ==
  [booking_id |-> b.booking_id, guest_id |-> b.guest_id, room_number |-> b.room_number,
   check_in |-> Iso[b.check_in], check_out |-> Iso[b.check_out],
   is_active |-> b.is_active]

BillToDict(b) ==
  [bill_id |-> b.bill_id, booking_id |-> b.booking_id, amount |-> b.amount,
   status |-> b.status,
   payment_date |-> IF b.payment_date # NoDate THEN Iso[b.payment_date]
                    ELSE JsonNull]

RECURSIVE MapRooms(_)
MapRooms(s) == IF s = <<>> THEN <<>> ELSE <<RoomToDict(Head(s))>> \o MapRooms(Tail(s))

RECURSIVE MapGuests(_)
MapGuests(s) == IF s = <<>> THEN <<>> ELSE <<GuestToDict(Head(s))>> \o MapGuests(Tail(s))

RECURSIVE MapBookings(_)
MapBookings(s) ==
  IF s = <<>> THEN <<>> ELSE <<BookingToDict(Head(s))>> \o MapBookings(Tail(s))

RECURSIVE MapBills(_)
MapBills(s) == IF s = <<>> THEN <<>> ELSE <<BillToDict(Head(s))>> \o MapBills(Tail(s))

----------------------------------------------------------------------------
(* The JSON files of the data directory.                                   *)

\* a file that does not exist
Missing == [state |-> "missing", data |-> <<>>]

\* json.dump(data, f) that ran to its end
Json(data) == [state |-> "json", data |-> data]

\* what a write of `data` over `old` leaves: the new content; the old file when
\* open() fails; a cut-off file when the dump fails after open() truncated it
SaveToFile(old, data, outcome) ==
  CASE outcome = "written" -> Json(data)
    [] outcome = "open failed" -> old
    [] outcome = "dump failed" -> [state |-> "corrupt", data |-> <<>>]

\* what one write can come to
WriteResults == {"written", "open failed", "dump failed"}

\* the outcomes of the four writes of one save_data call: all of them written
\* while the data directory is sound, any of them failing while it is not
WriteOutcomes ==
  IF faults
  THEN [rooms : WriteResults, guests : WriteResults, bookings : WriteResults,
        bills : WriteResults]
  ELSE {[rooms |-> "written", guests |-> "written", bookings |-> "written",
         bills |-> "written"]}

\* HotelManager.save_data: the four collections, one file each, every write tried
SaveData(old, rs, gs, bs, ls, w) ==
  [rooms    |-> SaveToFile(old.rooms, MapRooms(rs), w.rooms),
   guests   |-> SaveToFile(old.guests, MapGuests(gs), w.guests),
   bookings |-> SaveToFile(old.bookings, MapBookings(bs), w.bookings),
   bills    |-> SaveToFile(old.bills, MapBills(ls), w.bills)]

\* the save that comes before the change: the four collections as they were
save_data_first(w) == disk' = SaveData(disk, rooms, guests, bookings, bills, w)

\* self.save_data() as the last step of an operation
save_data(w) == disk' = SaveData(disk, rooms', guests', bookings', bills', w)

----------------------------------------------------------------------------
(* Lookups.  An index into the list stands for the object found, 0 for None. *)

RECURSIVE FirstRoom(_, _, _)
FirstRoom(rs, room_number, i) ==
  IF i > Len(rs) THEN 0
  ELSE IF rs[i].number = room_number THEN i
  ELSE FirstRoom(rs, room_number, i + 1)

find_room(room_number) == FirstRoom(rooms, room_number, 1)

RECURSIVE FirstGuest(_, _, _)
FirstGuest(gs, guest_id, i) ==
  IF i > Len(gs) THEN 0
  ELSE IF gs[i].guest_id = guest_id THEN i
  ELSE FirstGuest(gs, guest_id, i + 1)

find_guest(guest_id) == FirstGuest(guests, guest_id, 1)

\* a lookup that falls back on the first booking
FirstBookingOrAny(bs, booking_id, i) ==
  IF \E j \in 1..Len(bs) : bs[j].booking_id = booking_id
  THEN CHOOSE j \in 1..Len(bs) :
         /\ bs[j].booking_id = booking_id
         /\ \A h \in 1..(j - 1) : bs[h].booking_id # booking_id
  ELSE IF bs = <<>> THEN 0 ELSE 1

RECURSIVE FirstBooking(_, _, _)
FirstBooking(bs, booking_id, i) ==
  IF i > Len(bs) THEN 0
  ELSE IF bs[i].booking_id = booking_id THEN i
  ELSE FirstBooking(bs, booking_id, i + 1)

find_booking(booking_id) == FirstBooking(bookings, booking_id, 1)

\* the loop that never finds a bill
NoBillOfBooking(ls, booking_id, i) == 0

\* the loop of generate_bill over self.bills: the first bill of the booking
RECURSIVE FirstBillOfBooking(_, _, _)
FirstBillOfBooking(ls, booking_id, i) ==
  IF i > Len(ls) THEN 0
  ELSE IF ls[i].booking_id = booking_id THEN i
  ELSE FirstBillOfBooking(ls, booking_id, i + 1)

\* the loop of process_payment over self.bills: the first bill with the id
RECURSIVE FirstBill(_, _, _)
FirstBill(ls, bill_id, i) ==
  IF i > Len(ls) THEN 0
  ELSE IF ls[i].bill_id = bill_id THEN i
  ELSE FirstBill(ls, bill_id, i + 1)

----------------------------------------------------------------------------
(* Availability.                                                           *)

\* None or the empty string as exclude_booking_id
NoId == "None"

Truthy(id) == id # NoId /\ id # ""

\* the overlap test with closed intervals: the check-out day counts as taken
OverlapsClosed(check_in, check_out, booking) ==
  DateLe(check_in, booking.check_out) /\ DateLe(booking.check_in, check_out)

\* check_in < booking.check_out and check_out > booking.check_in
Overlaps(check_in, check_out, booking) ==
  DateLt(check_in, booking.check_out) /\ DateLt(booking.check_in, check_out)

\* the loop of is_room_available from the i-th booking on
RECURSIVE ScanBookings(_, _, _, _, _, _)
ScanBookings(bs, room_number, check_in, check_out, exclude_booking_id, i) ==
  IF i > Len(bs) THEN TRUE
  ELSE IF bs[i].room_number = room_number
       THEN IF Truthy(exclude_booking_id) /\ bs[i].booking_id = exclude_booking_id
            THEN ScanBookings(bs, room_number, check_in, check_out,
                              exclude_booking_id, i + 1)
            ELSE IF Overlaps(check_in, check_out, bs[i])
                 THEN FALSE
                 ELSE ScanBookings(bs, room_number, check_in, check_out,
                                   exclude_booking_id, i + 1)
       ELSE ScanBookings(bs, room_number, check_in, check_out,
                         exclude_booking_id, i + 1)

\* the scan with its `return True` inside the loop: only the first booking counts
is_room_available_first(room_number, check_in, check_out, exclude_booking_id) ==
  \/ bookings = <<>>
  \/ bookings[1].room_number # room_number
  \/ Truthy(exclude_booking_id) /\ bookings[1].booking_id = exclude_booking_id
  \/ ~Overlaps(check_in, check_out, bookings[1])

is_room_available(room_number, check_in, check_out, exclude_booking_id) ==
  ScanBookings(bookings, room_number, check_in, check_out, exclude_booking_id, 1)

----------------------------------------------------------------------------
(* The outcome of a call: what it returned or raised, what it printed and  *)
(* whether it reached self.save_data().                                    *)

\* ret: "True", "False", "None", "ValueError" (raised), "str" (an identifier, in
\* val) or "Bill" (the bill at index ref of self.bills); a process_payment that
\* returns True names the bill it settled in val and ref; msg: the line printed
Outcome(op, ret, val, ref, msg, saved) ==
  [op |-> op, ret |-> ret, val |-> val, ref |-> ref, msg |-> msg, saved |-> saved]

\* the way out of a method: the value returned or the exception raised, and the
\* line printed on the way
Branch(ret, msg) == [ret |-> ret, msg |-> msg]

\* a call that returns or raises before it changes anything
Declined(op, br) ==
  /\ last' = Outcome(op, br.ret, "", 0, br.msg, FALSE)
  /\ UNCHANGED <<rooms, guests, bookings, bills, disk, today, faults>>

----------------------------------------------------------------------------
(* HotelManager.__init__ on an empty data directory.                       *)

Init ==
  /\ rooms = <<>>
  /\ guests = <<>>
  /\ bookings = <<>>
  /\ bills = <<>>
  /\ disk = [rooms |-> Missing, guests |-> Missing, bookings |-> Missing,
             bills |-> Missing]
  /\ today = Today
  /\ faults = FALSE
  /\ last = Outcome("__init__", "None", "", 0, "", FALSE)

----------------------------------------------------------------------------
(* Rooms and guests.                                                       *)

\* add_room that takes the room back when a write has failed
add_room_undo(room_number, room_type, price, w) ==
  IF find_room(room_number) # 0
  THEN Declined("add_room", Branch("False", "Room already exists."))
  ELSE /\ rooms' = IF \A f \in DOMAIN w : w[f] = "written"
                   THEN Append(rooms, Room(room_number, room_type, price, FALSE))
                   ELSE rooms
       /\ UNCHANGED <<guests, bookings, bills, today, faults>>
       /\ save_data(w)
       /\ last' = Outcome("add_room", "True", "", 0, "", TRUE)

add_room(room_number, room_type, price, w) ==
  IF find_room(room_number) # 0
  THEN Declined("add_room", Branch("False", "Room already exists."))
  ELSE /\ rooms' = Append(rooms, Room(room_number, room_type, price, FALSE))
       /\ UNCHANGED <<guests, bookings, bills, today, faults>>
       /\ save_data(w)
       /\ last' = Outcome("add_room", "True", "", 0, "", TRUE)

add_guest(name, phone, email, address, w) ==
  /\ Len(guests) < MaxGuests
  /\ \E guest_id \in GuestIds :
       /\ guests' = Append(guests, Guest(guest_id, name, phone, email, address))
       /\ UNCHANGED <<rooms, bookings, bills, today, faults>>
       /\ save_data(w)
       /\ last' = Outcome("add_guest", "str", guest_id, 0, "", TRUE)

----------------------------------------------------------------------------
(* Bookings.                                                               *)

\* the range test with < in place of <=: a stay of no nights passes
ValidRangeOrEqual(check_in_date, check_out_date) == ~DateLt(check_out_date, check_in_date)

\* the test of lines 305 and 357 negated: check_out_date > check_in_date
ValidRange(check_in_date, check_out_date) == ~DateLe(check_out_date, check_in_date)

\* create_booking with the dates parsed before the guest and the room are
\* looked up
CreateBookingDatesFirst(guest_id, room_number, check_in, check_out) ==
  LET pin == Parsed[check_in]
      pout == Parsed[check_out]
  IN IF ~pin.ok \/ ~pout.ok
     THEN Branch("ValueError", "Invalid date format.")
     ELSE IF ~ValidRange(pin.date, pout.date)
     THEN Branch("ValueError", "Check-out date must be after check-in date.")
     ELSE IF find_guest(guest_id) = 0
     THEN Branch("None", "Guest not found.")
     ELSE IF find_room(room_number) = 0
     THEN Branch("None", "Room not found.")
     ELSE IF ~is_room_available(room_number, pin.date, pout.date, NoId)
     THEN Branch("None", "Room is not available.")
     ELSE Branch("str", "")

\* create_booking without the room lookup of lines 296-299
CreateBookingAnyRoom(guest_id, room_number, check_in, check_out) ==
  IF find_guest(guest_id) = 0
  THEN Branch("None", "Guest not found.")
  ELSE LET pin == Parsed[check_in]
           pout == Parsed[check_out]
       IN IF ~pin.ok \/ ~pout.ok
          THEN Branch("ValueError", "Invalid date format.")
          ELSE IF ~ValidRange(pin.date, pout.date)
          THEN Branch("ValueError", "Check-out date must be after check-in date.")
          ELSE IF ~is_room_available(room_number, pin.date, pout.date, NoId)
          THEN Branch("None", "Room is not available.")
          ELSE Branch("str", "")

\* create_booking up to the point where the booking is built: "str" stands for
\* reaching line 313
CreateBookingBranch(guest_id, room_number, check_in, check_out) ==
  IF find_guest(guest_id) = 0
  THEN Branch("None", "Guest not found.")
  ELSE IF find_room(room_number) = 0
  THEN Branch("None", "Room not found.")
  ELSE LET pin == Parsed[check_in]
           pout == Parsed[check_out]
       IN IF ~pin.ok \/ ~pout.ok
          THEN Branch("ValueError", "Invalid date format.")
          ELSE IF ~ValidRange(pin.date, pout.date)
          THEN Branch("ValueError", "Check-out date must be after check-in date.")
          ELSE IF ~is_room_available(room_number, pin.date, pout.date, NoId)
          THEN Branch("None", "Room is not available.")
          ELSE Branch("str", "")

create_booking(guest_id, room_number, check_in, check_out) ==
  LET br == CreateBookingBranch(guest_id, room_number, check_in, check_out)
  IN IF br.ret # "str"
     THEN Declined("create_booking", br)
     ELSE /\ Len(bookings) < MaxBookings
          /\ \E booking_id \in BookingIds, w \in WriteOutcomes :
               /\ bookings' = Append(bookings,
                                     Booking(booking_id, guest_id, room_number,
                                             Parsed[check_in].date,
                                             Parsed[check_out].date, TRUE))
               /\ UNCHANGED <<rooms, guests, bills, today, faults>>
               /\ save_data(w)
               /\ last' = Outcome("create_booking", "str", booking_id, 0, "", TRUE)

\* check_in_date of update_booking: the booking's own date unless one is given
NewCheckIn(booking, check_in) ==
  IF Supplied(check_in) THEN Parsed[check_in]
  ELSE [ok |-> TRUE, date |-> booking.check_in]

\* check_out_date of update_booking
NewCheckOut(booking, check_out) ==
  IF Supplied(check_out) THEN Parsed[check_out]
  ELSE [ok |-> TRUE, date |-> booking.check_out]

\* update_booking up to the point where the booking is changed: "True" stands
\* for reaching line 365
UpdateBookingBranch(booking_id, check_in, check_out) ==
  LET i == find_booking(booking_id)
  IN IF i = 0
     THEN Branch("False", "Booking not found.")
     ELSE LET pin == NewCheckIn(bookings[i], check_in)
              pout == NewCheckOut(bookings[i], check_out)
          IN IF ~pin.ok
             THEN Branch("ValueError", "Invalid check-in date format.")
             ELSE IF ~pout.ok
             THEN Branch("ValueError", "Invalid check-out date format.")
             ELSE IF ~ValidRange(pin.date, pout.date)
             THEN Branch("ValueError", "Check-out date must be after check-in date.")
             ELSE IF ~is_room_available(bookings[i].room_number, pin.date,
                                        pout.date, booking_id)
             THEN Branch("False", "Room is not available.")
             ELSE Branch("True", "")

\* booking.check_in = check_in_date; booking.check_out = check_out_date
SetDates(bs, i, check_in_date, check_out_date) ==
  [bs EXCEPT ![i].check_in = check_in_date, ![i].check_out = check_out_date]

update_booking(booking_id, check_in, check_out) ==
  LET br == UpdateBookingBranch(booking_id, check_in, check_out)
      i == find_booking(booking_id)
  IN IF br.ret # "True"
     THEN Declined("update_booking", br)
     ELSE \E w \in WriteOutcomes :
            /\ bookings' = SetDates(bookings, i,
                                    NewCheckIn(bookings[i], check_in).date,
                                    NewCheckOut(bookings[i], check_out).date)
            /\ UNCHANGED <<rooms, guests, bills, today, faults>>
            /\ save_data(w)
            /\ last' = Outcome("update_booking", "True", "", 0, "", TRUE)

\* the comprehension with == for !=: only the cancelled booking is kept
RECURSIVE OnlyBooking(_, _)
OnlyBooking(bs, booking_id) ==
  IF bs = <<>> THEN <<>>
  ELSE IF Head(bs).booking_id = booking_id
       THEN <<Head(bs)>> \o OnlyBooking(Tail(bs), booking_id)
       ELSE OnlyBooking(Tail(bs), booking_id)

\* [b for b in self.bookings if b.booking_id != booking_id]
RECURSIVE WithoutBooking(_, _)
WithoutBooking(bs, booking_id) ==
  IF bs = <<>> THEN <<>>
  ELSE IF Head(bs).booking_id # booking_id
       THEN <<Head(bs)>> \o WithoutBooking(Tail(bs), booking_id)
       ELSE WithoutBooking(Tail(bs), booking_id)

\* a cancel that also drops the bills of the booking
cancel_booking_cascade(booking_id) ==
  IF find_booking(booking_id) = 0
  THEN Declined("cancel_booking", Branch("False", "Booking not found."))
  ELSE \E w \in WriteOutcomes :
         /\ bookings' = WithoutBooking(bookings, booking_id)
         /\ bills' = SelectSeq(bills, LAMBDA l : l.booking_id # booking_id)
         /\ UNCHANGED <<rooms, guests, today, faults>>
         /\ save_data(w)
         /\ last' = Outcome("cancel_booking", "True", booking_id, 0, "", TRUE)

cancel_booking(booking_id) ==
  IF find_booking(booking_id) = 0
  THEN Declined("cancel_booking", Branch("False", "Booking not found."))
  ELSE \E w \in WriteOutcomes :
         /\ bookings' = WithoutBooking(bookings, booking_id)
         /\ UNCHANGED <<rooms, guests, bills, today, faults>>
         /\ save_data(w)
         /\ last' = Outcome("cancel_booking", "True", booking_id, 0, "", TRUE)

----------------------------------------------------------------------------
(* Billing.                                                                *)

\* the amount with both the first and the last day charged
BillAmountInclusive(booking, room) ==
  (DaysBetween(booking.check_out, booking.check_in) + 1) * room.price

\* days * room.price
BillAmount(booking, room) == DaysBetween(booking.check_out, booking.check_in) * room.price

\* a generate_bill that brings the amount of an existing bill up to date
generate_bill_refresh(booking_id) ==
  LET i == find_booking(booking_id)
      k == FirstBillOfBooking(bills, booking_id, 1)
  IN IF i = 0
     THEN Declined("generate_bill", Branch("None", "Booking not found."))
     ELSE LET r == find_room(bookings[i].room_number)
          IN IF r = 0
             THEN Declined("generate_bill", Branch("None", "Room not found."))
             ELSE IF k # 0
             THEN \E w \in WriteOutcomes :
                    /\ bills' = [bills EXCEPT
                                   ![k].amount = BillAmount(bookings[i], rooms[r])]
                    /\ UNCHANGED <<rooms, guests, bookings, today, faults>>
                    /\ save_data(w)
                    /\ last' = Outcome("generate_bill", "Bill", bills[k].bill_id, k,
                                       "Bill already exists.", TRUE)
             ELSE \E bill_id \in BillIds, w \in WriteOutcomes :
                    /\ bills' = Append(bills,
                                       Bill(bill_id, booking_id,
                                            BillAmount(bookings[i], rooms[r]),
                                            "UNPAID"))
                    /\ UNCHANGED <<rooms, guests, bookings, today, faults>>
                    /\ save_data(w)
                    /\ last' = Outcome("generate_bill", "Bill", bill_id,
                                       Len(bills) + 1, "BILL DETAILS", TRUE)

\* generate_bill up to the point where the bill is built: "Bill" with no line
\* printed stands for reaching line 507
GenerateBillBranch(booking_id) ==
  LET i == find_booking(booking_id)
  IN IF i = 0
     THEN Branch("None", "Booking not found.")
     ELSE IF FirstBillOfBooking(bills, booking_id, 1) # 0
     THEN Branch("Bill", "Bill already exists.")
     ELSE IF find_room(bookings[i].room_number) = 0
     THEN Branch("None", "Room not found.")
     ELSE Branch("Bill", "")

generate_bill(booking_id) ==
  LET br == GenerateBillBranch(booking_id)
      i == find_booking(booking_id)
      k == FirstBillOfBooking(bills, booking_id, 1)
  IN IF br.ret = "None"
     THEN Declined("generate_bill", br)
     ELSE IF br.msg # ""
     THEN /\ last' = Outcome("generate_bill", "Bill", bills[k].bill_id, k,
                             "Bill already exists.", FALSE)
          /\ UNCHANGED <<rooms, guests, bookings, bills, disk, today, faults>>
     ELSE LET r == find_room(bookings[i].room_number)
          IN \E bill_id \in BillIds, w \in WriteOutcomes :
               /\ bills' = Append(bills,
                                  Bill(bill_id, booking_id,
                                       BillAmount(bookings[i], rooms[r]), "UNPAID"))
               /\ UNCHANGED <<rooms, guests, bookings, today, faults>>
               /\ save_data(w)
               /\ last' = Outcome("generate_bill", "Bill", bill_id,
                                  Len(bills) + 1, "BILL DETAILS", TRUE)

\* the settlement without its second line: the status alone
SettleStatusOnly(ls, k, now) == [ls EXCEPT ![k].status = "PAID"]

\* bill.status = "PAID"; bill.payment_date = datetime.datetime.now().date()
Settle(ls, k, now) == [ls EXCEPT ![k].status = "PAID", ![k].payment_date = now]

\* process_payment without the test of lines 553-555: a paid bill is paid again
ProcessPaymentBranchRepay(bill_id, amount) ==
  LET k == FirstBill(bills, bill_id, 1)
  IN IF k = 0
     THEN Branch("False", "Bill not found.")
     ELSE IF amount < bills[k].amount
     THEN Branch("False", "Payment amount is less.")
     ELSE Branch("True", "PAYMENT DETAILS")

\* process_payment up to the point where the bill is settled: "True" stands
\* for reaching line 561
ProcessPaymentBranch(bill_id, amount) ==
  LET k == FirstBill(bills, bill_id, 1)
  IN IF k = 0
     THEN Branch("False", "Bill not found.")
     ELSE IF bills[k].status = "PAID"
     THEN Branch("False", "Bill is already paid.")
     ELSE IF amount < bills[k].amount
     THEN Branch("False", "Payment amount is less.")
     ELSE Branch("True", "PAYMENT DETAILS")

process_payment(bill_id, amount) ==
  LET br == ProcessPaymentBranch(bill_id, amount)
      k == FirstBill(bills, bill_id, 1)
  IN IF br.ret # "True"
     THEN Declined("process_payment", br)
     ELSE \E w \in WriteOutcomes :
            /\ bills' = Settle(bills, k, today)
            /\ UNCHANGED <<rooms, guests, bookings, today, faults>>
            /\ save_data(w)
            /\ last' = Outcome("process_payment", "True", bill_id, k,
                               "PAYMENT DETAILS", TRUE)

----------------------------------------------------------------------------
(* Room prices.                                                            *)

\* float(s) of a string of decimal digits; ok = FALSE is ValueError, which is
\* what float raises on the empty string and on a string with a letter in it
Float(s) ==
  IF s # <<>> /\ \A i \in 1..Len(s) : s[i] \in Digits
  THEN [ok |-> TRUE, val |-> NumVal(s)]
  ELSE [ok |-> FALSE, val |-> 0]

\* the truth value of `room_type and room_type.strip()`
TypeSupplied(room_type) == room_type \notin {NoId, "", " "}

\* room.price after `if price and price.strip(): try: room.price = float(price)`
NewPrice(room, price) ==
  IF Supplied(price) /\ Float(price).ok THEN Float(price).val ELSE room.price

update_room(room_number, room_type, price) ==
  LET r == find_room(room_number)
  IN IF r = 0
     THEN Declined("update_room", Branch("False", "Room not found."))
     ELSE \E w \in WriteOutcomes :
            /\ rooms' = [rooms EXCEPT
                           ![r].type = IF TypeSupplied(room_type) THEN room_type
                                       ELSE rooms[r].type,
                           ![r].price = NewPrice(rooms[r], price)]
            /\ UNCHANGED <<guests, bookings, bills, today, faults>>
            /\ save_data(w)
            /\ last' = Outcome("update_room", "True", "", 0,
                               IF Supplied(price) /\ ~Float(price).ok
                               THEN "Invalid price format. Price not updated."
                               ELSE "", TRUE)

----------------------------------------------------------------------------
(* Guest details.                                                          *)

\* the truth value of `name and name.strip()` for a field of update_guest
FieldSupplied(field) == field \notin {NoId, "", " "}

update_guest(guest_id, name, phone, email, address) ==
  LET g == find_guest(guest_id)
  IN IF g = 0
     THEN Declined("update_guest", Branch("False", "Guest not found."))
     ELSE \E w \in WriteOutcomes :
            /\ guests' = [guests EXCEPT
                            ![g].name = IF FieldSupplied(name) THEN name ELSE @,
                            ![g].phone = IF FieldSupplied(phone) THEN phone ELSE @,
                            ![g].email = IF FieldSupplied(email) THEN email ELSE @,
                            ![g].address = IF FieldSupplied(address) THEN address ELSE @]
            /\ UNCHANGED <<rooms, bookings, bills, today, faults>>
            /\ save_data(w)
            /\ last' = Outcome("update_guest", "True", "", 0, "", TRUE)

----------------------------------------------------------------------------
(* The revenue report.                                                     *)

\* one turn of the loop over self.bills: the bill's share of total_revenue,
\* paid_bills and unpaid_bills
ReportBill(bill, start, end) ==
  LET i == find_booking(bill.booking_id)
  IN IF i = 0 THEN [total |-> 0, paid |-> 0, unpaid |-> 0]
     ELSE LET counted == /\ bill.status = "PAID"
                         /\ bill.payment_date # NoDate
                         /\ DateLe(start, bill.payment_date)
                         /\ DateLe(bill.payment_date, end)
              open == /\ bill.status = "UNPAID"
                      /\ DateLe(bookings[i].check_in, end)
                      /\ DateLe(start, bookings[i].check_out)
          IN [total |-> IF counted THEN bill.amount ELSE 0,
              paid |-> IF counted THEN 1 ELSE 0,
              unpaid |-> IF open THEN 1 ELSE 0]

\* the loop over self.bills from the k-th bill on
RECURSIVE ReportLoop(_, _, _)
ReportLoop(k, start, end) ==
  IF k > Len(bills) THEN [total |-> 0, paid |-> 0, unpaid |-> 0]
  ELSE LET one == ReportBill(bills[k], start, end)
           rest == ReportLoop(k + 1, start, end)
       IN [total |-> one.total + rest.total, paid |-> one.paid + rest.paid,
           unpaid |-> one.unpaid + rest.unpaid]

\* generate_revenue_report: ret "ValueError" when a date does not parse or the
\* end is before the start, else "None" and the three figures printed
generate_revenue_report(start_date, end_date) ==
  LET pstart == Parsed[start_date]
      pend == Parsed[end_date]
      none == [total |-> 0, paid |-> 0, unpaid |-> 0]
  IN IF ~pstart.ok \/ ~pend.ok
     THEN [ret |-> "ValueError", figures |-> none]
     ELSE IF DateLt(pend.date, pstart.date)
     THEN [ret |-> "ValueError", figures |-> none]
     ELSE [ret |-> "None", figures |-> ReportLoop(1, pstart.date, pend.date)]

----------------------------------------------------------------------------
(* The occupancy report.                                                   *)

\* booking.room_number == room.number and booking.check_in <= today <= booking.check_out
HoldsToday(booking, room) ==
  /\ booking.room_number = room.number
  /\ DateLe(booking.check_in, today)
  /\ DateLe(today, booking.check_out)

\* the inner loop without its break: one for every booking that holds the room
RECURSIVE CountEveryBooking(_, _)
CountEveryBooking(room, j) ==
  IF j > Len(bookings) THEN 0
  ELSE (IF HoldsToday(bookings[j], room) THEN 1 ELSE 0) + CountEveryBooking(room, j + 1)

\* the inner loop over self.bookings from the j-th booking on: what it adds to
\* the count, one at the first booking that holds the room today, then break
RECURSIVE CountRoom(_, _)
CountRoom(room, j) ==
  IF j > Len(bookings) THEN 0
  ELSE IF HoldsToday(bookings[j], room) THEN 1
  ELSE CountRoom(room, j + 1)

\* the first loop over self.rooms from the r-th room on: occupied_rooms
RECURSIVE OccupiedRooms(_)
OccupiedRooms(r) ==
  IF r > Len(rooms) THEN 0 ELSE CountRoom(rooms[r], 1) + OccupiedRooms(r + 1)

\* the second loop over self.rooms, with the first r rooms done: room_types
RECURSIVE RoomTypes(_)
RoomTypes(r) ==
  IF r = 0 THEN [t \in {} |-> [total |-> 0, occupied |-> 0]]
  ELSE LET before == RoomTypes(r - 1)
           room_type == rooms[r].type
           entry == IF room_type \in DOMAIN before THEN before[room_type]
                    ELSE [total |-> 0, occupied |-> 0]
       IN [t \in DOMAIN before \cup {room_type} |->
             IF t = room_type
             THEN [total |-> entry.total + 1,
                   occupied |-> entry.occupied + CountRoom(rooms[r], 1)]
             ELSE before[t]]

\* generate_occupancy_report: "No rooms available." and nothing else when there
\* is no room, else the figures printed
generate_occupancy_report ==
  IF rooms = <<>>
  THEN [msg |-> "No rooms available.", total_rooms |-> 0, occupied_rooms |-> 0,
        room_types |-> RoomTypes(0)]
  ELSE [msg |-> "OCCUPANCY REPORT", total_rooms |-> Len(rooms),
        occupied_rooms |-> OccupiedRooms(1), room_types |-> RoomTypes(Len(rooms))]

----------------------------------------------------------------------------
(* Reading the data directory back.                                        *)

\* datetime.datetime.fromisoformat(s).date() of a YYYY-MM-DD string
FromIsoFormat(s) ==
  LET bad == [ok |-> FALSE, date |-> NoDate]
  IN IF Len(s) # 10 THEN bad
     ELSE IF ~(\A i \in {1, 2, 3, 4, 6, 7, 9, 10} : s[i] \in Digits) THEN bad
     ELSE IF s[5] # "-" \/ s[8] # "-" THEN bad
     ELSE LET y == NumVal(SubSeq(s, 1, 4))
              m == NumVal(SubSeq(s, 6, 7))
              d == NumVal(SubSeq(s, 9, 10))
          IN IF ValidDate(y, m, d)
             THEN [ok |-> TRUE, date |-> [year |-> y, month |-> m, day |-> d]]
             ELSE bad

\* fromisoformat of every string a file can hold, evaluated once
FromIso == [s \in {Iso[dt] : dt \in StoredDates} |-> FromIsoFormat(s)]

\* Database._load_from_file: the list in the file, [] when the file is missing
\* or json.load raises on it
LoadFromFile(file) == IF file.state = "json" THEN file.data ELSE <<>>

RoomFromDict(d) == Room(d.number, d.type, d.price, d.is_occupied)

GuestFromDict(d) == Guest(d.guest_id, d.name, d.phone, d.email, d.address)

BookingFromDict(d) ==
  Booking(d.booking_id, d.guest_id, d.room_number, FromIso[d.check_in].date,
          FromIso[d.check_out].date, d.is_active)

\* from_dict without lines 42-43: the payment date is not read back
BillFromDictNoDate(d) == Bill(d.bill_id, d.booking_id, d.amount, d.status)

BillFromDict(d) ==
  [Bill(d.bill_id, d.booking_id, d.amount, d.status) EXCEPT
     !.payment_date = IF d.payment_date # JsonNull THEN FromIso[d.payment_date].date
                      ELSE NoDate]

RECURSIVE LoadRooms(_)
LoadRooms(s) == IF s = <<>> THEN <<>> ELSE <<RoomFromDict(Head(s))>> \o LoadRooms(Tail(s))

RECURSIVE LoadGuests(_)
LoadGuests(s) == IF s = <<>> THEN <<>> ELSE <<GuestFromDict(Head(s))>> \o LoadGuests(Tail(s))

RECURSIVE LoadBookings(_)
LoadBookings(s) ==
  IF s = <<>> THEN <<>> ELSE <<BookingFromDict(Head(s))>> \o LoadBookings(Tail(s))

RECURSIVE LoadBills(_)
LoadBills(s) == IF s = <<>> THEN <<>> ELSE <<BillFromDict(Head(s))>> \o LoadBills(Tail(s))

\* the keys from_dict reads from a record of each file
Fields ==
  [rooms |-> {"number", "type", "price", "is_occupied"},
   guests |-> {"guest_id", "name", "phone", "email", "address"},
   bookings |-> {"booking_id", "guest_id", "room_number", "check_in", "check_out",
                 "is_active"},
   bills |-> {"bill_id", "booking_id", "amount", "status", "payment_date"}]

\* data[key] raises KeyError in from_dict: a record of the file lacks a key.
\* The list comprehensions of load_rooms, load_guests, load_bookings and
\* load_bills run outside the try of _load_from_file.
KeyError(f) ==
  LET data == LoadFromFile(disk[f])
  IN \E i \in 1..Len(data) : ~(Fields[f] \subseteq DOMAIN data[i])

\* HotelManager.__init__ on the data directory as it is: the four lists empty,
\* then load_data, one file after the other; a KeyError leaves __init__ and
\* main() with it
load_data ==
  LET raised == [f \in DOMAIN disk |-> KeyError(f)]
      at_rooms == raised.rooms
      at_guests == at_rooms \/ raised.guests
      at_bookings == at_guests \/ raised.bookings
      at_bills == at_bookings \/ raised.bills
  IN /\ rooms' = IF at_rooms THEN <<>> ELSE LoadRooms(LoadFromFile(disk.rooms))
     /\ guests' = IF at_guests THEN <<>> ELSE LoadGuests(LoadFromFile(disk.guests))
     /\ bookings' = IF at_bookings THEN <<>>
                    ELSE LoadBookings(LoadFromFile(disk.bookings))
     /\ bills' = IF at_bills THEN <<>> ELSE LoadBills(LoadFromFile(disk.bills))
     /\ UNCHANGED <<disk, today, faults>>
     /\ last' = Outcome("__init__", IF at_bills THEN "KeyError" ELSE "None", "", 0, "",
                        FALSE)

----------------------------------------------------------------------------
(* The clock and the data directory.                                       *)

\* no call in progress
Idle(op) == Outcome(op, "None", "", 0, "", FALSE)

\* midnight passes: datetime.now().date() is the next day from here on
Tick ==
  /\ ToOrdinal(today) - ToOrdinal(Today) < MaxTicks
  /\ today' = NextDay(today)
  /\ UNCHANGED <<rooms, guests, bookings, bills, disk, faults>>
  /\ last' = Idle("tick")

\* the data directory starts or stops refusing writes (full or read-only disk)
Fault ==
  /\ faults' = ~faults
  /\ UNCHANGED <<rooms, guests, bookings, bills, disk, today>>
  /\ last' = Idle("fault")

----------------------------------------------------------------------------
(* The operator at the menu: any call, in any order.                       *)

AddRoom == \E a \in RoomArgs, w \in WriteOutcomes : add_room(a[1], a[2], a[3], w)

AddGuest == \E a \in GuestArgs, w \in WriteOutcomes : add_guest(a[1], a[2], a[3], a[4], w)

CreateBooking ==
  \E guest_id \in GuestIdArgs, room_number \in RoomNumbers,
     check_in \in CreateDateArgs, check_out \in CreateDateArgs :
       create_booking(guest_id, room_number, check_in, check_out)

UpdateBooking ==
  \E booking_id \in BookingIds, check_in \in UpdateDateArgs,
     check_out \in UpdateDateArgs :
       update_booking(booking_id, check_in, check_out)

CancelBooking == \E booking_id \in BookingIds : cancel_booking(booking_id)

\* rooms, guests and the booking lifecycle
Next ==
  \/ AddRoom
  \/ AddGuest
  \/ CreateBooking
  \/ UpdateBooking
  \/ CancelBooking

Spec == Init /\ [][Next]_vars

----------------------------------------------------------------------------
(* Bookings of one room together with their bills.                         *)

AddRoom101 == \E w \in WriteOutcomes : add_room("101", "Single", 100, w)

CreateBooking101 ==
  \E check_in \in WellFormed, check_out \in WellFormed :
       create_booking("g1", "101", check_in, check_out)

ExtendBooking ==
  \E booking_id \in BookingIds, check_out \in WellFormed :
       update_booking(booking_id, S_empty, check_out)

GenerateBill == \E booking_id \in BookingIds : generate_bill(booking_id)

ProcessPayment == \E bill_id \in BillIds, amount \in PayArgs : process_payment(bill_id, amount)

NextBilling ==
  \/ AddRoom101
  \/ AddGuest
  \/ CreateBooking101
  \/ ExtendBooking
  \/ CancelBooking
  \/ GenerateBill
  \/ ProcessPayment

SpecBilling == Init /\ [][NextBilling]_vars

----------------------------------------------------------------------------
(* Bills while the price of the room changes.                              *)

\* the room menu with the type left blank
Reprice == \E price \in PriceArgs : update_room("101", "", price)

NextPricing ==
  \/ AddRoom101
  \/ AddGuest
  \/ CreateBooking101
  \/ ExtendBooking
  \/ CancelBooking
  \/ GenerateBill
  \/ ProcessPayment
  \/ Reprice

SpecPricing == Init /\ [][NextPricing]_vars

----------------------------------------------------------------------------
(* The ledger: bills and payments while the days pass.                     *)

NextLedger ==
  \/ AddRoom101
  \/ AddGuest
  \/ CreateBooking101
  \/ CancelBooking
  \/ GenerateBill
  \/ ProcessPayment
  \/ Tick

SpecLedger == Init /\ [][NextLedger]_vars

----------------------------------------------------------------------------
(* The data directory failing and the program started again.               *)

Restart == load_data

\* one night in room 101
CreateOneNight == create_booking("g1", "101", S_0531, S_61)

NextStore ==
  \/ AddRoom101
  \/ AddGuest
  \/ CreateOneNight
  \/ GenerateBill
  \/ Fault
  \/ Restart

SpecStore == Init /\ [][NextStore]_vars

----------------------------------------------------------------------------
(* One stay from the first room to the cancelled booking, every operation  *)
(* that changes a collection called once it can succeed, over a data       *)
(* directory that fails at any point.  The identifiers drawn are b1 and i1.*)

\* some bill is PAID
Settled == \E k \in 1..Len(bills) : bills[k].status = "PAID"

SetUpRoom == rooms = <<>> /\ AddRoom101

\* the room menu before anybody is registered: a new type and a new price
Refit == rooms # <<>> /\ guests = <<>> /\ update_room("101", "Suite", S_120)

\* the guest menu before the stay is booked: a new name, the rest left blank
Rename ==
  /\ guests # <<>> /\ bookings = <<>> /\ bills = <<>>
  /\ update_guest("g1", "Bob", "", "", "")

Book ==
  /\ rooms # <<>> /\ guests # <<>> /\ bookings = <<>> /\ bills = <<>>
  /\ CreateOneNight
  /\ bookings'[1].booking_id = "b1"

BillStay ==
  /\ bookings # <<>> /\ bills = <<>>
  /\ generate_bill("b1")
  /\ bills'[1].bill_id = "i1"

PayBill == bills # <<>> /\ ~Settled /\ process_payment("i1", 300)

\* the booking menu once the bill is paid: a second night
AddNight == Settled /\ bookings # <<>> /\ update_booking("b1", S_empty, S_0602)

CancelStay ==
  /\ Settled /\ bookings # <<>>
  /\ bookings[1].check_out = Parsed[S_0602].date
  /\ cancel_booking("b1")

NextPersist ==
  \/ SetUpRoom
  \/ Refit
  \/ AddGuest
  \/ Rename
  \/ Book
  \/ BillStay
  \/ PayBill
  \/ AddNight
  \/ CancelStay
  \/ Fault

SpecPersist == Init /\ [][NextPersist]_vars

----------------------------------------------------------------------------
(* The program started on a data directory as somebody left it.            *)

\* a file that json.load raises on
Unparsable == [state |-> "corrupt", data |-> <<>>]

\* one record of each collection as to_dict writes it
Sound ==
  [rooms |-> RoomToDict(Room("101", "Single", 100, FALSE)),
   guests |-> GuestToDict(Guest("g1", "Ann", "555-0101", "ann@example.org", "1 Main St")),
   bookings |-> BookingToDict(Booking("b1", "g1", "101", Parsed[S_0531].date,
                                      Parsed[S_61].date, TRUE)),
   bills |-> BillToDict(Bill("i1", "b1", 100, "UNPAID"))]

\* the same records with their last key gone
Short ==
  [rooms |-> [number |-> "101", type |-> "Single", price |-> 100],
   guests |-> [guest_id |-> "g1", name |-> "Ann", phone |-> "555-0101",
               email |-> "ann@example.org"],
   bookings |-> [booking_id |-> "b1", guest_id |-> "g1", room_number |-> "101",
                 check_in |-> Iso[Parsed[S_0531].date],
                 check_out |-> Iso[Parsed[S_61].date]],
   bills |-> [bill_id |-> "i1", booking_id |-> "b1", amount |-> 100,
              status |-> "UNPAID"]]

\* what each file of the directory can be: not there, not JSON, a list of one
\* sound record, a list of one record that lacks a key
Files ==
  [f \in DOMAIN Sound |-> {Missing, Unparsable, Json(<<Sound[f]>>), Json(<<Short[f]>>)}]

\* before HotelManager() is called
InitStartup ==
  /\ rooms = <<>>
  /\ guests = <<>>
  /\ bookings = <<>>
  /\ bills = <<>>
  /\ disk \in [rooms : Files.rooms, guests : Files.guests, bookings : Files.bookings,
               bills : Files.bills]
  /\ today = Today
  /\ faults = FALSE
  /\ last = Idle("main")

\* hotel = HotelManager()
Startup == last.op = "main" /\ load_data

SpecStartup == InitStartup /\ [][Startup]_vars

----------------------------------------------------------------------------
(* Every operation that changes a collection, with requests that can be    *)
(* met in full, in part or not at all.                                     *)

\* room types typed for update_room: none, a new one
TypeArgs == {"", "Suite"}

\* the room menu: type and price, each given or left blank
Alter ==
  \E room_type \in TypeArgs, price \in PriceArgs : update_room("101", room_type, price)

\* the guest menu: a new name for a guest, registered or not
RenameGuest == \E guest_id \in GuestIdArgs : update_guest(guest_id, "Bob", "", "", "")

\* check-in and check-out typed for update_booking
MoveInArgs == {S_empty, S_61}

MoveOutArgs == {S_empty, S_0602, S_0631}

\* the booking menu: new dates, each given or left blank
Move ==
  \E booking_id \in BookingIds, check_in \in MoveInArgs, check_out \in MoveOutArgs :
       update_booking(booking_id, check_in, check_out)

\* the booking menu while the room is free and nothing has been billed
BookFreeRoom == bookings = <<>> /\ bills = <<>> /\ CreateOneNight

NextAtomic ==
  \/ AddRoom101
  \/ AddGuest
  \/ BookFreeRoom
  \/ Alter
  \/ RenameGuest
  \/ Move
  \/ CancelBooking
  \/ GenerateBill
  \/ ProcessPayment

SpecAtomic == Init /\ [][NextAtomic]_vars

----------------------------------------------------------------------------
(* Two rooms and their bookings while the days pass.                       *)

CreateStay ==
  \E room_number \in RoomNumbers, check_in \in WellFormed, check_out \in WellFormed :
       create_booking("g1", room_number, check_in, check_out)

NextOccupancy ==
  \/ AddRoom
  \/ AddGuest
  \/ CreateStay
  \/ CancelBooking
  \/ Tick

SpecOccupancy == Init /\ [][NextOccupancy]_vars

----------------------------------------------------------------------------
(* Properties.                                                             *)

\* the dates the operator can name
Dates == {Parsed[s].date : s \in WellFormed}

D0531 == [year |-> 2024, month |-> 5, day |-> 31]

D0601 == [year |-> 2024, month |-> 6, day |-> 1]

D0602 == [year |-> 2024, month |-> 6, day |-> 2]

Positions == 1..Len(bookings)

\* a.check_in < b.check_out and a.check_out > b.check_in, on the day numbers
RangesOverlap(in1, out1, in2, out2) ==
  ToOrdinal(in1) < ToOrdinal(out2) /\ ToOrdinal(out1) > ToOrdinal(in2)

(* C1: no two distinct stored bookings of the same room overlap, that is,   *)
(* satisfy a.check_in < b.check_out and a.check_out > b.check_in.           *)
C1_NoDoubleBooking ==
  \A i, j \in Positions :
    (i # j /\ bookings[i].room_number = bookings[j].room_number)
      => ~RangesOverlap(bookings[i].check_in, bookings[i].check_out,
                        bookings[j].check_in, bookings[j].check_out)

(* C2: every stored booking has its check_out strictly after its check_in,  *)
(* whatever sequence of create, update and cancel calls led to the state.   *)
C2_CheckOutAfterCheckIn ==
  \A i \in Positions : ToOrdinal(bookings[i].check_in) < ToOrdinal(bookings[i].check_out)

\* an update has just gone through and left a booking of exactly one night
C2_Witness ==
  /\ last.op = "update_booking" /\ last.ret = "True"
  /\ \E i \in Positions :
       ToOrdinal(bookings[i].check_out) = ToOrdinal(bookings[i].check_in) + 1

(* C3: is_room_available returns False exactly when some stored booking of  *)
(* that room, other than those carrying exclude_booking_id, overlaps the    *)
(* requested range in the half-open sense; bookings of other rooms and      *)
(* ranges that only touch a booking do not make it False.                   *)
C3_AvailableIffNoOverlap ==
  \A room_number \in RoomNumbers, check_in \in Dates, check_out \in Dates,
     exclude \in BookingIds \cup {NoId, ""} :
       is_room_available(room_number, check_in, check_out, exclude)
         = ~(\E i \in Positions :
               /\ bookings[i].room_number = room_number
               /\ bookings[i].booking_id # exclude
               /\ RangesOverlap(check_in, check_out,
                                bookings[i].check_in, bookings[i].check_out))

\* a booking of one room ends where the asked range starts, a booking of the
\* other room covers that range, and the room is free for it; the booking's own
\* range is taken unless the booking is excluded
C3_Witness ==
  /\ last.op = "create_booking" /\ last.ret = "str"
  /\ \E i, j \in Positions :
       /\ bookings[i].room_number # bookings[j].room_number
       /\ bookings[i].check_out = D0601
       /\ RangesOverlap(D0601, D0602, bookings[j].check_in, bookings[j].check_out)
       /\ is_room_available(bookings[i].room_number, D0601, D0602, NoId)
       /\ ~is_room_available(bookings[i].room_number, bookings[i].check_in,
                             bookings[i].check_out, NoId)
       /\ is_room_available(bookings[i].room_number, bookings[i].check_in,
                            bookings[i].check_out, bookings[i].booking_id)

\* the argument names a stored guest, room, booking
GuestStored(guest_id) == \E i \in 1..Len(guests) : guests[i].guest_id = guest_id

RoomStored(room_number) == \E i \in 1..Len(rooms) : rooms[i].number = room_number

BookingStored(booking_id) == \E i \in Positions : bookings[i].booking_id = booking_id

\* the day number a well-formed date string names
DayOf(s) == ToOrdinal(Parsed[s].date)

\* some stored booking of the room overlaps the range the two strings name
Taken(room_number, check_in, check_out) ==
  \E i \in Positions :
    /\ bookings[i].room_number = room_number
    /\ RangesOverlap(Parsed[check_in].date, Parsed[check_out].date,
                     bookings[i].check_in, bookings[i].check_out)

\* the call changed nothing in memory and wrote nothing
NothingChanged ==
  /\ rooms' = rooms /\ guests' = guests /\ bookings' = bookings /\ bills' = bills
  /\ disk' = disk /\ ~last'.saved

(* C4: create_booking for a stored guest and room, with well-formed dates   *)
(* and check_out after check_in, whose range overlaps a stored booking of   *)
(* the room, returns None without raising and leaves the bookings as they   *)
(* were.                                                                    *)
C4_OverlapDeclined ==
  /\ [](\A guest_id \in GuestIdArgs, room_number \in RoomNumbers,
           check_in \in WellFormed, check_out \in WellFormed :
          ( /\ GuestStored(guest_id) /\ RoomStored(room_number)
            /\ DayOf(check_out) > DayOf(check_in)
            /\ Taken(room_number, check_in, check_out) )
          => CreateBookingBranch(guest_id, room_number, check_in, check_out)
               = Branch("None", "Room is not available."))
  /\ [][(last'.op = "create_booking" /\ last'.msg = "Room is not available.")
          => (last'.ret = "None" /\ NothingChanged)]_vars

\* a create_booking has just been declined for an overlap
C4_Witness ==
  /\ last.op = "create_booking" /\ last.ret = "None"
  /\ last.msg = "Room is not available."
  /\ bookings # <<>>

(* C5: create_booking for a stored guest and room raises ValueError when a  *)
(* date string does not parse as YYYY-MM-DD or when check_out is not after  *)
(* check_in; no booking is added and nothing is written.                    *)
C5_InvalidDatesRaise ==
  /\ [](\A guest_id \in GuestIdArgs, room_number \in RoomNumbers,
           check_in \in CreateDateArgs, check_out \in CreateDateArgs :
          ( /\ GuestStored(guest_id) /\ RoomStored(room_number)
            /\ \/ check_in \notin WellFormed
               \/ check_out \notin WellFormed
               \/ DayOf(check_out) <= DayOf(check_in) )
          => CreateBookingBranch(guest_id, room_number, check_in, check_out).ret
               = "ValueError")
  /\ [][(last'.op = "create_booking" /\ last'.ret = "ValueError")
          => NothingChanged]_vars

\* a create_booking has just raised for a range that is not at least one night,
\* in a store that holds the guest and the room
C5_Witness ==
  /\ last.op = "create_booking" /\ last.ret = "ValueError"
  /\ last.msg = "Check-out date must be after check-in date."
  /\ guests # <<>> /\ rooms # <<>>

(* C6: create_booking with a guest_id or a room_number that is not stored   *)
(* returns None without raising, whatever the date strings are, and leaves  *)
(* every collection as it was.                                              *)
C6_NotFoundFirst ==
  /\ [](\A guest_id \in GuestIdArgs, room_number \in RoomNumbers,
           check_in \in CreateDateArgs, check_out \in CreateDateArgs :
          (~GuestStored(guest_id) \/ ~RoomStored(room_number))
          => CreateBookingBranch(guest_id, room_number, check_in, check_out).ret
               = "None")
  /\ [][(last'.op = "create_booking" /\ last'.ret = "None") => NothingChanged]_vars

\* a create_booking has just returned None for a room that is not stored, the
\* guest being stored
C6_Witness ==
  /\ last.op = "create_booking" /\ last.ret = "None"
  /\ last.msg = "Room not found."
  /\ guests # <<>>

\* the arguments of update_booking that leave a date as it is
Omitted == {S_empty, S_blank}

\* the date update_booking works with: the one given, or the booking's own
Effective(s, current) == IF s \in Omitted THEN current ELSE Parsed[s].date

\* the first stored booking with the id: the one update_booking changes
Target(booking_id) ==
  CHOOSE i \in Positions :
    /\ bookings[i].booking_id = booking_id
    /\ \A j \in Positions : bookings[j].booking_id = booking_id => i <= j

\* a booking at another position, of the same room, overlaps the range
TakenByOther(i, check_in_date, check_out_date) ==
  \E j \in Positions :
    /\ j # i
    /\ bookings[j].room_number = bookings[i].room_number
    /\ RangesOverlap(check_in_date, check_out_date,
                     bookings[j].check_in, bookings[j].check_out)

(* C7: update_booking on a stored booking succeeds exactly when the         *)
(* effective range (each date given, or the booking's own where the         *)
(* argument is blank) has check_out after check_in and overlaps no other    *)
(* booking of the same room.                                                *)
C7_UpdateSucceedsIffFree ==
  \A booking_id \in BookingIds, check_in \in UpdateDateArgs,
     check_out \in UpdateDateArgs :
    BookingStored(booking_id) =>
      LET i == Target(booking_id)
          cin == Effective(check_in, bookings[i].check_in)
          cout == Effective(check_out, bookings[i].check_out)
      IN (UpdateBookingBranch(booking_id, check_in, check_out).ret = "True")
           = ( /\ check_in \in WellFormed \cup Omitted
               /\ check_out \in WellFormed \cup Omitted
               /\ ToOrdinal(cout) > ToOrdinal(cin)
               /\ ~TakenByOther(i, cin, cout) )


\* a booking of the same room that carries another id overlaps the range
TakenByOtherId(i, check_in_date, check_out_date) ==
  \E j \in Positions :
    /\ bookings[j].booking_id # bookings[i].booking_id
    /\ bookings[j].room_number = bookings[i].room_number
    /\ RangesOverlap(check_in_date, check_out_date,
                     bookings[j].check_in, bookings[j].check_out)

C9_Cancel ==
  [][last'.op = "cancel_booking" =>
       \A booking_id \in BookingIds :
         cancel_booking(booking_id) =>
           IF BookingStored(booking_id)
           THEN /\ last'.ret = "True"
                /\ bookings' = SelectSeq(bookings, LAMBDA b : b.booking_id # booking_id)
                /\ \A i \in 1..Len(bookings') : bookings'[i].booking_id # booking_id
                /\ \A i \in Positions :
                     bookings[i].booking_id = booking_id =>
                       ScanBookings(bookings', bookings[i].room_number,
                                    bookings[i].check_in, bookings[i].check_out,
                                    NoId, 1)
           ELSE last'.ret = "False" /\ NothingChanged]_vars

\* a cancel_booking has just removed a booking and left another one
C9_Witness ==
  /\ last.op = "cancel_booking" /\ last.ret = "True"
  /\ bookings # <<>>

(* C10: cancel_booking leaves the bills, the rooms and the guests as they   *)
(* were: the bill of a cancelled booking stays, with its amount, status and *)
(* payment_date.                                                            *)
C10_CancelKeepsBills ==
  [][last'.op = "cancel_booking" =>
       (bills' = bills /\ rooms' = rooms /\ guests' = guests)]_vars

\* a booking has just been cancelled and a paid bill names a booking that is
\* not stored
C10_Witness ==
  /\ last.op = "cancel_booking" /\ last.ret = "True"
  /\ \E k \in 1..Len(bills) :
       /\ ~BookingStored(bills[k].booking_id)
       /\ bills[k].status = "PAID"
       /\ bills[k].payment_date = Today


----------------------------------------------------------------------------
(* Properties of the bills.                                                *)

BillPositions == 1..Len(bills)

\* some bill carries the booking id
HasBill(booking_id) == \E k \in BillPositions : bills[k].booking_id = booking_id

\* at most one bill per booking id
OneBillPerBooking ==
  \A k1, k2 \in BillPositions :
    bills[k1].booking_id = bills[k2].booking_id => k1 = k2

\* the call hands back a bill of the booking that was there before, and the
\* bills are what they were
ReturnsExistingBill(booking_id) ==
  /\ last'.ret = "Bill"
  /\ last'.ref \in BillPositions
  /\ bills[last'.ref].booking_id = booking_id
  /\ last'.val = bills[last'.ref].bill_id
  /\ bills' = bills
  /\ ~last'.saved

(* C11: generate_bill for a stored booking that already has a bill returns  *)
(* that bill, with its bill_id, amount, status and payment_date as they     *)
(* were, and adds nothing to the bills; in every reachable state at most    *)
(* one bill exists per booking_id.                                          *)
C11_BillIdempotent ==
  /\ []OneBillPerBooking
  /\ [][last'.op = "generate_bill" =>
          \A booking_id \in BookingIds :
            (generate_bill(booking_id) /\ BookingStored(booking_id)
               /\ HasBill(booking_id))
              => ReturnsExistingBill(booking_id)]_vars

\* generate_bill has just answered with the bill that was already there
C11_Witness ==
  /\ last.op = "generate_bill" /\ last.ret = "Bill"
  /\ last.msg = "Bill already exists."
  /\ Len(bills) >= 1

(* C11 as the specification words it: whenever a bill exists for the        *)
(* booking_id, stored booking or not, generate_bill returns that bill.      *)
C11_AsStated ==
  /\ []OneBillPerBooking
  /\ [][last'.op = "generate_bill" =>
          \A booking_id \in BookingIds :
            (generate_bill(booking_id) /\ HasBill(booking_id))
              => ReturnsExistingBill(booking_id)]_vars


\* the nights of a stay, on the day numbers
Nights(booking) == ToOrdinal(booking.check_out) - ToOrdinal(booking.check_in)

\* the bills before the step, then one more
OneBillAdded ==
  /\ Len(bills') = Len(bills) + 1
  /\ SubSeq(bills', 1, Len(bills)) = bills

(* C12: a bill that generate_bill creates carries the id of a stored        *)
(* booking, an amount equal to the nights of that booking times the price   *)
(* its room has at that moment, status UNPAID and no payment_date.          *)
C12_NewBillAmount ==
  [][(last'.op = "generate_bill" /\ last'.saved) =>
       /\ OneBillAdded
       /\ LET new == bills'[Len(bills')]
          IN /\ new.status = "UNPAID"
             /\ new.payment_date = NoDate
             /\ new.bill_id = last'.val
             /\ \E i \in Positions, r \in 1..Len(rooms) :
                  /\ bookings[i].booking_id = new.booking_id
                  /\ rooms[r].number = bookings[i].room_number
                  /\ new.amount = Nights(bookings[i]) * rooms[r].price]_vars

\* a bill has just been created for two nights at the new price of 120
C12_Witness ==
  /\ last.op = "generate_bill" /\ last.saved
  /\ last.ref = Len(bills)
  /\ bills[last.ref].amount = 240
  /\ \E r \in 1..Len(rooms) : rooms[r].price = 120


\* what generate_bill would charge for the booking of the bill now, 0 when the
\* booking or its room is gone
AmountNow(bill) ==
  LET i == find_booking(bill.booking_id)
  IN IF i = 0 THEN 0
     ELSE LET r == find_room(bookings[i].room_number)
          IN IF r = 0 THEN 0 ELSE Nights(bookings[i]) * rooms[r].price

(* C13: no step changes the amount of an existing bill: after update_room,  *)
(* update_booking, cancel_booking, a repeated generate_bill or a            *)
(* process_payment of any amount, every bill is still there, in its place,  *)
(* with its bill_id, its booking_id and its amount.                         *)
C13_AmountFrozen ==
  [][/\ Len(bills') >= Len(bills)
     /\ \A k \in BillPositions :
          /\ bills'[k].bill_id = bills[k].bill_id
          /\ bills'[k].booking_id = bills[k].booking_id
          /\ bills'[k].amount = bills[k].amount]_vars

\* the price has just been changed and a bill of a stored booking no longer
\* equals nights times price
C13_Witness ==
  /\ last.op = "update_room" /\ last.ret = "True"
  /\ \E k \in BillPositions :
       /\ BookingStored(bills[k].booking_id)
       /\ bills[k].amount # AmountNow(bills[k])
       /\ bills[k].status = "PAID"


\* a stored booking with the id whose room is not among the rooms
RoomMissing(booking_id) ==
  \E i \in Positions :
    /\ bookings[i].booking_id = booking_id
    /\ ~RoomStored(bookings[i].room_number)

(* C14: generate_bill returns None, adds no bill and changes nothing when   *)
(* the booking_id matches no stored booking, and when the room of the       *)
(* booking matches no stored room and the booking has no bill yet.          *)
C14_BillNotFound ==
  /\ [](\A booking_id \in BookingIds :
          (\/ ~BookingStored(booking_id)
           \/ RoomMissing(booking_id) /\ ~HasBill(booking_id))
            => GenerateBillBranch(booking_id).ret = "None")
  /\ [][(last'.op = "generate_bill" /\ last'.ret = "None") => NothingChanged]_vars

\* generate_bill has just found the booking and not its room
C14_Witness ==
  /\ last.op = "generate_bill" /\ last.ret = "None"
  /\ last.msg = "Room not found."
  /\ bookings # <<>> /\ rooms = <<>>

(* C14 as the specification words it: None whenever the booking or its room *)
(* is not stored, bill or no bill.                                          *)
C14_AsStated ==
  \A booking_id \in BookingIds :
    (~BookingStored(booking_id) \/ RoomMissing(booking_id))
      => GenerateBillBranch(booking_id).ret = "None"


\* some bill carries the bill id
BillStored(bill_id) == \E k \in BillPositions : bills[k].bill_id = bill_id

\* no two bills share a bill_id
UniqueBillIds ==
  \A k1, k2 \in BillPositions : bills[k1].bill_id = bills[k2].bill_id => k1 = k2

(* C15: process_payment returns False when no bill carries the bill_id,     *)
(* when a bill carrying it is PAID, and when the amount offered is less     *)
(* than the amount of a bill carrying it; a call that returns False leaves  *)
(* every bill, and the whole store, as it was and saves nothing, so an      *)
(* underpaid bill stays UNPAID with no payment_date.                        *)
C15_PaymentDeclined ==
  /\ [](\A bill_id \in BillIds, amount \in PayArgs :
          LET br == ProcessPaymentBranch(bill_id, amount)
          IN /\ ~BillStored(bill_id) => br.ret = "False"
             /\ \A k \in BillPositions :
                  (/\ bills[k].bill_id = bill_id
                   /\ \/ bills[k].status = "PAID"
                      \/ amount < bills[k].amount)
                    => br.ret = "False")
  /\ [][(last'.op = "process_payment" /\ last'.ret = "False")
          => NothingChanged]_vars


(* C16: process_payment on an UNPAID bill with an amount not less than the  *)
(* amount of the bill returns True; a call that returns True sets the       *)
(* status of that bill to PAID and its payment_date to the current date,    *)
(* changes no other bill, and leaves the bill_id in a state where every     *)
(* further process_payment on it returns False.                             *)
C16_PaymentAccepted ==
  /\ [](\A k \in BillPositions, amount \in PayArgs :
          (bills[k].status = "UNPAID" /\ amount >= bills[k].amount)
            => ProcessPaymentBranch(bills[k].bill_id, amount).ret = "True")
  /\ [][(last'.op = "process_payment" /\ last'.ret = "True") =>
          LET k == last'.ref
          IN /\ k \in BillPositions
             /\ bills[k].bill_id = last'.val
             /\ bills[k].status = "UNPAID"
             /\ bills' = [bills EXCEPT ![k].status = "PAID",
                                       ![k].payment_date = today]
             /\ \A bill_id \in BillIds, amount \in PayArgs :
                  bill_id = bills[k].bill_id
                    => ProcessPaymentBranch(bill_id, amount)'.ret = "False"]_vars


(* C17: in every reachable state each bill has status UNPAID or PAID, and   *)
(* it is PAID exactly when it has a payment_date.                           *)
C17_PaidIffPaymentDate ==
  \A k \in BillPositions :
    /\ bills[k].status \in {"UNPAID", "PAID"}
    /\ bills[k].status = "PAID" <=> bills[k].payment_date # NoDate

\* a payment has just gone through; one bill is paid, another is not
C17_Witness ==
  /\ last.op = "process_payment" /\ last.ret = "True"
  /\ \E k1, k2 \in BillPositions :
       /\ bills[k1].status = "PAID" /\ bills[k1].payment_date = today
       /\ bills[k2].status = "UNPAID" /\ bills[k2].payment_date = NoDate

(* C18: settlement is one-way and happens once: a bill that is PAID, or has *)
(* a payment_date, is after every step still in its place, still PAID and   *)
(* with the same payment_date, also when the current date has moved on.     *)
C18_SettledOnce ==
  [][\A k \in BillPositions :
       (bills[k].status = "PAID" \/ bills[k].payment_date # NoDate)
         => /\ k <= Len(bills')
            /\ bills'[k].bill_id = bills[k].bill_id
            /\ bills'[k].status = "PAID"
            /\ bills'[k].payment_date = bills[k].payment_date]_vars

\* a payment on a bill settled on an earlier day has just been turned down
C18_Witness ==
  /\ last.op = "process_payment" /\ last.ret = "False"
  /\ last.msg = "Bill is already paid."
  /\ \E k \in BillPositions :
       /\ bills[k].status = "PAID"
       /\ bills[k].payment_date # NoDate
       /\ bills[k].payment_date # today


(* C19: identifiers are unique keys: in every reachable state no two stored *)
(* bookings share a booking_id, no two bills share a bill_id and no two     *)
(* guests share a guest_id, every create_booking having allocated an id     *)
(* that differs from the ids of the bookings already stored.                *)
C19_UniqueIds ==
  /\ \A i, j \in Positions : bookings[i].booking_id = bookings[j].booking_id => i = j
  /\ UniqueBillIds
  /\ \A i, j \in 1..Len(guests) : guests[i].guest_id = guests[j].guest_id => i = j


\* the bill is PAID with a payment_date from start to end, both included
PaidWithin(bill, start, end) ==
  /\ bill.status = "PAID"
  /\ bill.payment_date # NoDate
  /\ ToOrdinal(start) <= ToOrdinal(bill.payment_date)
  /\ ToOrdinal(bill.payment_date) <= ToOrdinal(end)

\* the sum of the amounts of the bills from the k-th on that are paid within
\* the range
RECURSIVE PaidTotal(_, _, _)
PaidTotal(k, start, end) ==
  IF k > Len(bills) THEN 0
  ELSE (IF PaidWithin(bills[k], start, end) THEN bills[k].amount ELSE 0)
         + PaidTotal(k + 1, start, end)

\* the number of bills that are paid within the range
PaidCount(start, end) ==
  Cardinality({k \in BillPositions : PaidWithin(bills[k], start, end)})

(* C20: for every range with start <= end the revenue report gives as total *)
(* revenue the sum of the amounts of all bills that are PAID with a         *)
(* payment_date in the range, bounds included, and as paid-bill count the   *)
(* number of those bills.                                                   *)
C20_RevenueReport ==
  \A start_date \in WellFormed, end_date \in WellFormed :
    DayOf(start_date) <= DayOf(end_date) =>
      LET report == generate_revenue_report(start_date, end_date)
          start == Parsed[start_date].date
          end == Parsed[end_date].date
      IN /\ report.ret = "None"
         /\ report.figures.total = PaidTotal(1, start, end)
         /\ report.figures.paid = PaidCount(start, end)

\* the rooms that some stored booking holds today, the check-out day included
RoomsHeldToday ==
  {r \in 1..Len(rooms) :
     \E j \in Positions :
       /\ bookings[j].room_number = rooms[r].number
       /\ ToOrdinal(bookings[j].check_in) <= ToOrdinal(today)
       /\ ToOrdinal(today) <= ToOrdinal(bookings[j].check_out)}

\* the sum of the occupied counts of the room types in ts
RECURSIVE SumOccupied(_, _)
SumOccupied(room_types, ts) ==
  IF ts = {} THEN 0
  ELSE LET t == CHOOSE x \in ts : TRUE
       IN room_types[t].occupied + SumOccupied(room_types, ts \ {t})

(* C21: the occupancy report counts a room as occupied today if and only if *)
(* some stored booking of the room has check_in <= today <= check_out, and  *)
(* counts it once however many bookings do; so the occupied rooms are never *)
(* more than the rooms, and the occupied counts of the room types add up to *)
(* the occupied rooms.                                                      *)
C21_OccupancyReport ==
  rooms # <<>> =>
    LET report == generate_occupancy_report
    IN /\ report.total_rooms = Len(rooms)
       /\ report.occupied_rooms = Cardinality(RoomsHeldToday)
       /\ report.occupied_rooms <= report.total_rooms
       /\ SumOccupied(report.room_types, DOMAIN report.room_types)
            = report.occupied_rooms

\* two rooms, one of them held today by two bookings back to back, the first
\* of which leaves today, and the other room free
C21_Witness ==
  /\ Len(rooms) = 2
  /\ Len(bookings) = 2
  /\ bookings[1].room_number = bookings[2].room_number
  /\ bookings[1].check_out = today
  /\ bookings[2].check_in = today
  /\ generate_occupancy_report.occupied_rooms = 1

(* C22: serialization round trip: for every Room, Guest, Booking and Bill   *)
(* that is stored in a reachable state, an UNPAID bill with no payment_date *)
(* and a PAID bill with one included, from_dict(to_dict(x)) equals x in     *)
(* every field.                                                             *)
C22_RoundTrip ==
  /\ \A r \in 1..Len(rooms) : RoomFromDict(RoomToDict(rooms[r])) = rooms[r]
  /\ \A g \in 1..Len(guests) : GuestFromDict(GuestToDict(guests[g])) = guests[g]
  /\ \A i \in Positions : BookingFromDict(BookingToDict(bookings[i])) = bookings[i]
  /\ \A k \in BillPositions : BillFromDict(BillToDict(bills[k])) = bills[k]

\* a room, a guest, a booking, a bill that is PAID with its date and a bill
\* that is UNPAID with none, stored together
C22_Witness ==
  /\ rooms # <<>>
  /\ guests # <<>>
  /\ bookings # <<>>
  /\ \E k \in BillPositions :
       /\ bills[k].status = "PAID"
       /\ bills[k].payment_date \in ClockDays
       /\ BillToDict(bills[k]).payment_date = Iso[bills[k].payment_date]
  /\ \E k \in BillPositions :
       /\ bills[k].status = "UNPAID"
       /\ bills[k].payment_date = NoDate
       /\ BillToDict(bills[k]).payment_date = JsonNull

\* the operations that change a collection
Mutating ==
  {"add_room", "update_room", "add_guest", "update_guest", "create_booking",
   "update_booking", "cancel_booking", "generate_bill", "process_payment"}

\* the step is a call of one of them that succeeded: it returned True, an
\* identifier, or a bill it has just created
Succeeded ==
  /\ last'.op \in Mutating
  /\ last'.ret \in {"True", "str", "Bill"}
  /\ last'.op = "generate_bill" => Len(bills') = Len(bills) + 1

\* the four collections as a restart would read them from the files
Persisted ==
  <<LoadRooms(LoadFromFile(disk.rooms)), LoadGuests(LoadFromFile(disk.guests)),
    LoadBookings(LoadFromFile(disk.bookings)), LoadBills(LoadFromFile(disk.bills))>>

\* every file is there, whole, and holds the collection that is in memory
InSync ==
  /\ \A f \in DOMAIN disk : disk[f].state = "json"
  /\ Persisted = mem

\* the four files after four writes that succeed
AllWritten ==
  [rooms |-> Json(MapRooms(rooms)), guests |-> Json(MapGuests(guests)),
   bookings |-> Json(MapBookings(bookings)), bills |-> Json(MapBills(bills))]

(* C23: every mutation path ends with a persist call: a step changes a      *)
(* collection only in a call that goes on to save, and after any successful *)
(* call of a mutating operation whose four writes succeed the files hold    *)
(* the four collections as they are in memory, whatever earlier failed      *)
(* saves left in them.                                                      *)
C23_SavedAfterMutation ==
  [][/\ (mem' # mem) => (Succeeded /\ last'.saved)
     /\ Succeeded => last'.saved
     /\ (Succeeded /\ ~faults) => InSync'
     /\ (Succeeded /\ disk' = AllWritten') => InSync']_vars

\* a payment has just been accepted on a sound data directory, and the files
\* hold the paid bill and the other collections
C23_Witness ==
  /\ ~faults
  /\ last.op = "process_payment" /\ last.ret = "True"
  /\ bills[1].status = "PAID"
  /\ disk.bills.data[1].status = "PAID"
  /\ InSync

\* what a write of each collection puts into its file
Content ==
  [rooms |-> MapRooms(rooms), guests |-> MapGuests(guests),
   bookings |-> MapBookings(bookings), bills |-> MapBills(bills)]

\* the file does not hold its collection: it is stale, cut off or not there
LeftBehind(f) == disk[f] # Json(Content[f])

\* the change each call of the stay makes to memory
Applied ==
  CASE last'.op = "add_room" -> rooms' = Append(rooms, Room("101", "Single", 100, FALSE))
    [] last'.op = "update_room" -> rooms'[1].type = "Suite" /\ rooms'[1].price = 120
    [] last'.op = "add_guest" -> Len(guests') = Len(guests) + 1
    [] last'.op = "update_guest" -> guests'[1].name = "Bob"
    [] last'.op = "create_booking" -> Len(bookings') = Len(bookings) + 1
    [] last'.op = "update_booking" -> bookings'[1].check_out = Parsed[S_0602].date
    [] last'.op = "cancel_booking" -> bookings' = <<>>
    [] last'.op = "generate_bill" -> Len(bills') = Len(bills) + 1
    [] last'.op = "process_payment" ->
         bills'[1].status = "PAID" /\ bills'[1].payment_date = today
    [] OTHER -> FALSE

(* C24: a storage write that fails during a mutating operation does not     *)
(* undo the operation: the call still succeeds with its change applied in   *)
(* memory, each of the four files is left as its own write leaves it (the   *)
(* new content, the old file, or a cut-off file), a file that a failed      *)
(* write leaves without its collection makes the files and memory differ,   *)
(* and they stay as they are until the next call that saves.                *)
C24_NoRollback ==
  [][/\ Succeeded =>
          /\ Applied
          /\ \A f \in DOMAIN disk :
               \E r \in WriteResults : disk'[f] = SaveToFile(disk[f], Content'[f], r)
          /\ (\E f \in DOMAIN disk : LeftBehind(f)') => ~InSync'
     /\ ~last'.saved => (disk' = disk /\ mem' = mem)]_vars

\* the call that created the bill went on although the write of the first
\* file failed: rooms.json is cut off, the bill is in memory and bills.json,
\* written last, holds it
C24_Witness ==
  /\ last.op = "generate_bill" /\ last.ret = "Bill"
  /\ disk.rooms.state = "corrupt"
  /\ rooms # <<>>
  /\ Len(bills) = 1
  /\ disk.bills = Json(Content.bills)
  /\ ~InSync

\* the backing data of the collection is missing or corrupt: the file is not
\* there, cannot be read as JSON, or holds a record that lacks a required key
Corrupt(f) == disk[f].state # "json" \/ KeyError(f)

\* what the collection starts as when its own file alone decides it: empty
\* when the file is missing or corrupt, the records of the file otherwise
StartsAs ==
  <<IF Corrupt("rooms") THEN <<>> ELSE LoadRooms(LoadFromFile(disk.rooms)),
    IF Corrupt("guests") THEN <<>> ELSE LoadGuests(LoadFromFile(disk.guests)),
    IF Corrupt("bookings") THEN <<>> ELSE LoadBookings(LoadFromFile(disk.bookings)),
    IF Corrupt("bills") THEN <<>> ELSE LoadBills(LoadFromFile(disk.bills))>>

(* C25: load failures are isolated per collection: when at startup the      *)
(* backing data of a single collection is missing or corrupt (unreadable,   *)
(* not parseable, or holding a record that lacks a required field), startup *)
(* does not fail, that collection starts empty and the other three are      *)
(* loaded from their files.                                                 *)
C25_LoadIsolated ==
  (last.op = "__init__" /\ \E f \in DOMAIN disk :
                             Corrupt(f) /\ \A g \in DOMAIN disk \ {f} : ~Corrupt(g))
    => (last.ret = "None" /\ mem = StartsAs)

\* the call changed nothing in memory, or it reported success and made every
\* change it was asked to make
AllOrNothing(asked) ==
  \/ mem' = mem
  \/ last'.ret \in {"True", "str", "Bill"} /\ asked

\* update_room was asked for a type and a price, each unless left blank
RoomAsked(room_type, price) ==
  LET r == find_room("101")
  IN /\ TypeSupplied(room_type) => rooms'[r].type = room_type
     /\ Supplied(price) => (Float(price).ok /\ rooms'[r].price = Float(price).val)

\* update_booking was asked for a check-in and a check-out, each unless left
\* blank
DatesAsked(booking_id, check_in, check_out) ==
  LET i == find_booking(booking_id)
  IN /\ Supplied(check_in) =>
          (Parsed[check_in].ok /\ bookings'[i].check_in = Parsed[check_in].date)
     /\ Supplied(check_out) =>
          (Parsed[check_out].ok /\ bookings'[i].check_out = Parsed[check_out].date)

\* the other seven operations: what each was asked to do
OthersAllOrNothing ==
  /\ last'.op = "add_room" =>
       AllOrNothing(rooms' = Append(rooms, Room("101", "Single", 100, FALSE)))
  /\ last'.op = "add_guest" =>
       AllOrNothing(\E a \in GuestArgs :
                      guests' = Append(guests, Guest(last'.val, a[1], a[2], a[3], a[4])))
  /\ last'.op = "create_booking" =>
       AllOrNothing(bookings' = Append(bookings,
                                       Booking(last'.val, "g1", "101", D0531, D0601, TRUE)))
  /\ \A guest_id \in GuestIdArgs :
       update_guest(guest_id, "Bob", "", "", "") =>
         AllOrNothing(guests'[find_guest(guest_id)].name = "Bob")
  /\ \A booking_id \in BookingIds :
       cancel_booking(booking_id) =>
         AllOrNothing(\A j \in 1..Len(bookings') : bookings'[j].booking_id # booking_id)
  /\ \A booking_id \in BookingIds :
       generate_bill(booking_id) =>
         AllOrNothing(/\ Len(bills') = Len(bills) + 1
                      /\ bills'[Len(bills')].booking_id = booking_id
                      /\ bills'[Len(bills')].status = "UNPAID")
  /\ \A bill_id \in BillIds, amount \in PayArgs :
       process_payment(bill_id, amount) =>
         AllOrNothing(LET k == FirstBill(bills, bill_id, 1)
                      IN bills'[k].status = "PAID" /\ bills'[k].payment_date = today)

(* C26: no mutating operation is applied in part: each call of add_room,    *)
(* update_room, add_guest, update_guest, create_booking, update_booking,    *)
(* cancel_booking, generate_bill or process_payment either makes every      *)
(* change it was asked to make and reports success, or changes nothing in   *)
(* memory; update_room with a new type and an unparsable price and          *)
(* update_booking with a valid new check-in and a malformed check-out       *)
(* included.                                                                *)
C26_NoPartialApplication ==
  [][/\ \A room_type \in TypeArgs, price \in PriceArgs :
          update_room("101", room_type, price) =>
            AllOrNothing(RoomAsked(room_type, price))
     /\ \A booking_id \in BookingIds, check_in \in MoveInArgs, check_out \in MoveOutArgs :
          update_booking(booking_id, check_in, check_out) =>
            AllOrNothing(DatesAsked(booking_id, check_in, check_out))
     /\ OthersAllOrNothing]_vars

\* the guest and the room of every stored booking are stored
BookingsRefer ==
  \A i \in Positions :
    /\ \E g \in 1..Len(guests) : guests[g].guest_id = bookings[i].guest_id
    /\ \E r \in 1..Len(rooms) : rooms[r].number = bookings[i].room_number

\* generate_bill on a stored booking that has no bill does not fail for a
\* missing room
BillableWhenStored ==
  \A booking_id \in BookingIds :
    (BookingStored(booking_id) /\ ~HasBill(booking_id)) =>
      GenerateBillBranch(booking_id) = Branch("Bill", "")

(* C27: referential integrity of bookings: no operation breaks it, and a    *)
(* restart keeps it when the files hold the collections as they are in      *)
(* memory: if before the step the guest_id of each stored booking is that   *)
(* of a stored guest and its room_number that of a stored room, so it is    *)
(* after; and where it holds, generate_bill on a stored booking that has no *)
(* bill does not fail for a missing room.                                   *)
C27_IntegrityKept ==
  [][/\ (BookingsRefer /\ (last'.op # "__init__" \/ InSync)) => BookingsRefer'
     /\ BookingsRefer' => BillableWhenStored']_vars

\* the program started again on files that hold what was in memory: the
\* booking, not billed yet, is back with its guest and its room
C27_Witness ==
  /\ last.op = "__init__"
  /\ InSync
  /\ Len(bookings) = 1
  /\ bills = <<>>
  /\ BookingsRefer
  /\ GenerateBillBranch(bookings[1].booking_id).ret = "Bill"

(* C27 as stated: from an empty store, in every reachable state each stored *)
(* booking's guest and room are stored, and generate_bill on a stored       *)
(* booking that has no bill never fails for a missing room.                 *)
C27_AsStated == BookingsRefer /\ BillableWhenStored

====
